---- MODULE Spec2Model ----
(***************************************************************************)
(* A model of package spirytus (spirytus.go): the Resource method          *)
(* dispatcher (Handle, ServeHTTP, serveOptions) and the JSON shims         *)
(* (JSONResponse, JSONRequest).                                            *)
(*                                                                         *)
(* Go strings are TLA+ strings (\o is Go's +).  An http.ResponseWriter is  *)
(* modelled by the sequence of calls made on it, in order:                 *)
(*   <<"Header.Set", key, value>>, <<"WriteHeader", code>>,                *)
(*   <<"Write", bytes>>,                                                   *)
(* and the call of a bound handler by <<"Handler.ServeHTTP", h, w, req>>.  *)
(***************************************************************************)
EXTENDS Integers, Sequences, FiniteSets, TLC

VARIABLES
    r,          \* the *Resource: [nil, allow, methods]
    before,     \* history: r as it was when the last call started
    seen,       \* history: the distinct methods passed to Handle, first seen first
    latest,     \* history: method -> handler of the most recent Handle(method, _), 0 if none
    nHandle,    \* history: number of Handle calls that returned
    call,       \* the last call and its arguments
    out,        \* the calls the last call made on its ResponseWriter, in order
    ret,        \* the error the last call returned ("nil": no error, "void": no result)
    dest,       \* what JSONRequest stored in *v ("" when nothing was stored)
    panicked,   \* TRUE once a call has panicked (nil pointer dereference)
    sv,         \* the ServeHTTP calls in progress, one per ResponseWriter
    cors        \* the call stack of a serveCORS call

vars == <<r, before, seen, latest, nHandle, call, out, ret, dest, panicked, sv, cors>>

----------------------------------------------------------------------------
(* Bounds of the model *)

\* Handlers are opaque http.Handler values, identified by 1..NumHandlers.
NumHandlers == 2

\* Handle calls per behaviour.
MaxHandleCalls == 4

\* Bytes of a request body.
MaxBodyLen == 2

\* Handle calls made before concurrent serving begins.
MaxBindCalls == 2

\* Frames the goroutine stack holds before the runtime aborts the program
\* with a stack overflow.
MaxStackDepth == 8

----------------------------------------------------------------------------
(* Inputs *)

Handlers == 1..NumHandlers

\* Method strings passed to Handle: Go accepts any string, the empty one too.
MethodNames == {"", "GET", "POST", "OPTIONS"}

\* Request methods: the ones that may be bound and one that never is.
RequestMethods == MethodNames \cup {"DELETE"}

Writers == {"w1", "w2"}

\* An *http.Request: its Method and its Origin header.
Requests == [Method : RequestMethods, Origin : {"", "http://a"}]

----------------------------------------------------------------------------
(* net/http *)

StatusOK == 200
StatusNotFound == 404
StatusMethodNotAllowed == 405

\* http.Error(w, error, code): plain-text headers, the status line, then the
\* message and a newline (fmt.Fprintln).
HttpError(error, code) ==
    << <<"Header.Set", "Content-Type", "text/plain; charset=utf-8">>,
       <<"Header.Set", "X-Content-Type-Options", "nosniff">>,
       <<"WriteHeader", code>>,
       <<"Write", error \o "\n">> >>

----------------------------------------------------------------------------
(* type Resource struct { allow string; methods []methodHandler } *)

\* The zero value Resource{}: allow == "", methods == nil.
ZeroResource == [nil |-> FALSE, allow |-> "", methods |-> <<>>]

\* A nil *Resource: it has no fields to read.
NilResource == [nil |-> TRUE, allow |-> "", methods |-> <<>>]

\* methodHandler{method, handler}
methodHandler(method, handler) == [method |-> method, handler |-> handler]

\* The loop of Handle and of ServeHTTP: the index of the first entry of
\* methods, from i on, whose method is `method`; 0 when the loop ends
\* without a match.
FirstMatch_LastOnly(methods, method, i) ==
    IF Len(methods) > 0 /\ methods[Len(methods)].method = method
    THEN Len(methods) ELSE 0

RECURSIVE FirstMatch(_, _, _)
FirstMatch(methods, method, i) ==
    IF i > Len(methods) THEN 0
    ELSE IF methods[i].method = method THEN i
    ELSE FirstMatch(methods, method, i + 1)

\* if r.allow != "" { method = ", " + method }; r.allow += method
HandleAllow_Prepends(allow, method) ==
    IF allow # "" THEN method \o (", " \o allow) ELSE allow \o method

HandleAllow(allow, method) ==
    IF allow # "" THEN allow \o (", " \o method) ELSE allow \o method

\* r.methods[i] = h
HandleReplace_KeepsOld(methods, i, h) ==
    methods

HandleReplace_Removes(methods, i, h) ==
    [j \in 1..(Len(methods) - 1) |-> IF j < i THEN methods[j] ELSE methods[j + 1]]

HandleReplace(methods, i, h) ==
    [methods EXCEPT ![i] = h]

\* func (r *Resource) Handle(method string, handler http.Handler), on a
\* Resource that is not nil: the Resource when the call returns.
Handle_AlwaysAppends(res, method, handler) ==
    [res EXCEPT !.methods = Append(res.methods, methodHandler(method, handler)),
                !.allow = HandleAllow(res.allow, method)]

Handle(res, method, handler) ==
    LET h == methodHandler(method, handler)
        i == FirstMatch(res.methods, method, 1)
    IN  IF i # 0
        THEN [res EXCEPT !.methods = HandleReplace(res.methods, i, h)]
        ELSE [res EXCEPT !.methods = Append(res.methods, h),
                         !.allow = HandleAllow(res.allow, method)]

\* func (r *Resource) serveOptions(w, req)
serveOptions(res, w, req) ==
    << <<"Header.Set", "Allow", res.allow>>,
       <<"WriteHeader", StatusOK>> >>

\* The guard of ServeHTTP's first branch: r == nil || len(r.methods) == 0.
\* Go evaluates || left to right, so r.methods is not read when r is nil.
IsEmpty_NilOnly(res) ==
    res.nil

IsEmpty(res) ==
    res.nil \/ Len(res.methods) = 0

\* The end of ServeHTTP, reached when the loop matched nothing:
\* w.Header().Set("Allow", r.allow); http.Error(w, "Not allowed", 405)
NotAllowed_NoAllowHeader(res) ==
    HttpError("Not allowed", StatusMethodNotAllowed)

NotAllowed(res) ==
    << <<"Header.Set", "Allow", res.allow>> >>
        \o HttpError("Not allowed", StatusMethodNotAllowed)

\* func (r *Resource) ServeHTTP(w, req): the calls made on w and whether the
\* call panics.
ServeHTTP_NoNilCheck(res, w, req) ==
    IF res.nil
    THEN [out |-> <<>>, panic |-> TRUE]
    ELSE IF Len(res.methods) = 0
    THEN [out |-> HttpError("Not found", StatusNotFound), panic |-> FALSE]
    ELSE IF req.Method = "OPTIONS"
    THEN [out |-> serveOptions(res, w, req), panic |-> FALSE]
    ELSE LET i == FirstMatch(res.methods, req.Method, 1)
         IN  IF i # 0
             THEN [out |-> << <<"Handler.ServeHTTP", res.methods[i].handler, w, req>> >>,
                   panic |-> FALSE]
             ELSE [out |-> NotAllowed(res), panic |-> FALSE]

ServeHTTP_LoopBeforeOptions(res, w, req) ==
    IF IsEmpty(res)
    THEN [out |-> HttpError("Not found", StatusNotFound), panic |-> FALSE]
    ELSE LET i == FirstMatch(res.methods, req.Method, 1)
         IN  IF i # 0
             THEN [out |-> << <<"Handler.ServeHTTP", res.methods[i].handler, w, req>> >>,
                   panic |-> FALSE]
             ELSE IF req.Method = "OPTIONS"
             THEN [out |-> serveOptions(res, w, req), panic |-> FALSE]
             ELSE [out |-> NotAllowed(res), panic |-> FALSE]

ServeHTTP_NoReturnAfterHandler(res, w, req) ==
    IF IsEmpty(res)
    THEN [out |-> HttpError("Not found", StatusNotFound), panic |-> FALSE]
    ELSE IF req.Method = "OPTIONS"
    THEN [out |-> serveOptions(res, w, req), panic |-> FALSE]
    ELSE LET i == FirstMatch(res.methods, req.Method, 1)
         IN  IF i # 0
             THEN [out |-> << <<"Handler.ServeHTTP", res.methods[i].handler, w, req>> >>
                              \o NotAllowed(res),
                   panic |-> FALSE]
             ELSE [out |-> NotAllowed(res), panic |-> FALSE]

ServeHTTP(res, w, req) ==
    IF IsEmpty(res)
    THEN [out |-> HttpError("Not found", StatusNotFound), panic |-> FALSE]
    ELSE IF req.Method = "OPTIONS"
    THEN [out |-> serveOptions(res, w, req), panic |-> FALSE]
    ELSE LET i == FirstMatch(res.methods, req.Method, 1)
         IN  IF i # 0
             THEN [out |-> << <<"Handler.ServeHTTP", res.methods[i].handler, w, req>> >>,
                   panic |-> FALSE]
             ELSE [out |-> NotAllowed(res), panic |-> FALSE]

----------------------------------------------------------------------------
(* encoding/json, as far as JSONResponse and JSONRequest use it *)

\* A Go value handed to json.Marshal: its kind and its text.
Values ==
    { [kind |-> "nil",    text |-> ""],
      [kind |-> "bool",   text |-> "true"],
      [kind |-> "int",    text |-> "7"],
      [kind |-> "string", text |-> "a"],
      [kind |-> "float",  text |-> "NaN"],
      [kind |-> "chan",   text |-> ""],
      [kind |-> "cycle",  text |-> ""] }

\* json.Marshal(value): the bytes and the error.
Marshal(value) ==
    CASE value.kind = "nil"    -> [v |-> "null", err |-> "nil"]
      [] value.kind = "bool"   -> [v |-> value.text, err |-> "nil"]
      [] value.kind = "int"    -> [v |-> value.text, err |-> "nil"]
      [] value.kind = "string" -> [v |-> "\"" \o value.text \o "\"", err |-> "nil"]
      [] value.kind = "float"  -> [v |-> "", err |-> "json: unsupported value: NaN"]
      [] value.kind = "chan"   -> [v |-> "", err |-> "json: unsupported type: chan int"]
      [] value.kind = "cycle"  -> [v |-> "", err |-> "json: unsupported value: encountered a cycle"]

\* The bytes of a request body, one string per byte.
BodyBytes == {"7", "\"", "a", " "}

RECURSIVE SeqsUpTo(_, _)
SeqsUpTo(S, n) ==
    IF n = 0 THEN {<<>>}
    ELSE LET shorter == SeqsUpTo(S, n - 1)
         IN  shorter \cup {Append(s, x) : s \in {t \in shorter : Len(t) = n - 1}, x \in S}

\* A request body: the bytes it yields, then io.EOF or a read error.
Bodies == [data : SeqsUpTo(BodyBytes, MaxBodyLen), readErr : BOOLEAN]

\* What v points to in JSONRequest(req, v); "nil" is a nil v.
Targets == {"string", "int", "interface", "nil"}

RECURSIVE SkipSpace(_, _)
SkipSpace(data, i) ==
    IF i <= Len(data) /\ data[i] = " " THEN SkipSpace(data, i + 1) ELSE i

\* The index after the digits that start at i.
RECURSIVE EndOfNumber(_, _)
EndOfNumber(data, i) ==
    IF i <= Len(data) /\ data[i] = "7" THEN EndOfNumber(data, i + 1) ELSE i

\* The index of the quote that closes the string opened before i; 0 if none.
RECURSIVE ClosingQuote(_, _)
ClosingQuote(data, i) ==
    IF i > Len(data) THEN 0
    ELSE IF data[i] = "\"" THEN i
    ELSE ClosingQuote(data, i + 1)

RECURSIVE Concat(_, _, _)
Concat(data, i, j) ==
    IF i > j THEN "" ELSE data[i] \o Concat(data, i + 1, j)

\* How the stream ends when the decoder needs a byte the body does not have.
EndOfStream(body, started) ==
    IF body.readErr THEN "read error"
    ELSE IF started THEN "unexpected EOF"
    ELSE "EOF"

\* Decoder.readValue: the first JSON value of the body.  The decoder knows
\* that a value has ended when it sees the byte after it, or io.EOF.
ReadValue(body) ==
    LET data == body.data
        i == SkipSpace(data, 1)
    IN  IF i > Len(data)
        THEN [kind |-> "", text |-> "", err |-> EndOfStream(body, FALSE)]
        ELSE IF data[i] = "7"
        THEN LET j == EndOfNumber(data, i)
             IN  IF j > Len(data) /\ body.readErr
                 THEN [kind |-> "", text |-> "", err |-> "read error"]
                 ELSE [kind |-> "number", text |-> Concat(data, i, j - 1), err |-> "nil"]
        ELSE IF data[i] = "\""
        THEN LET j == ClosingQuote(data, i + 1)
             IN  IF j = 0
                 THEN [kind |-> "", text |-> "", err |-> EndOfStream(body, TRUE)]
                 ELSE IF j = Len(data) /\ body.readErr
                 THEN [kind |-> "", text |-> "", err |-> "read error"]
                 ELSE [kind |-> "string", text |-> Concat(data, i + 1, j - 1), err |-> "nil"]
        ELSE [kind |-> "", text |-> "",
              err |-> "invalid character 'a' looking for beginning of value"]

\* dec.Decode(v): the error, and what is stored in *v ("" when nothing is).
Decode(body, target) ==
    LET val == ReadValue(body)
    IN  IF val.err # "nil" THEN [err |-> val.err, dest |-> ""]
        ELSE IF target = "nil"
        THEN [err |-> "json: Unmarshal(nil)", dest |-> ""]
        ELSE IF target = "interface"
             \/ (target = "string" /\ val.kind = "string")
             \/ (target = "int" /\ val.kind = "number")
        THEN [err |-> "nil", dest |-> val.text]
        ELSE [err |-> "json: cannot unmarshal " \o val.kind \o " into Go value of type " \o target,
              dest |-> ""]

----------------------------------------------------------------------------
(* The JSON shims *)

StatusCodes == {StatusOK, StatusNotFound}

\* func JSONResponse(w, code, value) error: the calls made on w and the
\* error returned.
JSONResponse_WritesBeforeCheck(w, code, value) ==
    LET m == Marshal(value)
    IN  [out |-> << <<"Header.Set", "Content-Type", "application/json">>,
                    <<"WriteHeader", code>> >>
                 \o (IF m.err # "nil" THEN <<>> ELSE << <<"Write", m.v>> >>),
         err |-> m.err]

JSONResponse_BodyBeforeStatus(w, code, value) ==
    LET m == Marshal(value)
    IN  IF m.err # "nil"
        THEN [out |-> <<>>, err |-> m.err]
        ELSE [out |-> << <<"Header.Set", "Content-Type", "application/json">>,
                         <<"Write", m.v>>,
                         <<"WriteHeader", code>> >>,
              err |-> "nil"]

JSONResponse(w, code, value) ==
    LET m == Marshal(value)
    IN  IF m.err # "nil"
        THEN [out |-> <<>>, err |-> m.err]
        ELSE [out |-> << <<"Header.Set", "Content-Type", "application/json">>,
                         <<"WriteHeader", code>>,
                         <<"Write", m.v>> >>,
              err |-> "nil"]

\* func JSONRequest(req, v) error
JSONRequest_WrapsError(body, target) ==
    LET d == Decode(body, target)
    IN  IF d.err # "nil"
        THEN [err |-> "spirytus: " \o d.err, dest |-> d.dest]
        ELSE d

JSONRequest(body, target) ==
    Decode(body, target)

----------------------------------------------------------------------------
(* ServeHTTP step by step, for calls that run concurrently.  A step is one *)
(* read of the shared Resource with the local computation that follows it. *)

\* The locals of a ServeHTTP(w, req) call: where it is, the loop index i and
\* the length n the range loop took, the calls made on w, the functions
\* entered, and (history) the Resource as it was when the call began.
NotServing(w) ==
    [pc |-> "idle", w |-> w, req |-> [Method |-> "", Origin |-> ""], i |-> 0, n |-> 0,
     out |-> <<>>, trace |-> <<>>, res0 |-> ZeroResource]

Done(st, o) ==
    [st EXCEPT !.pc = "done", !.out = st.out \o o]

\* One step of ServeHTTP from st.pc: the locals and the Resource after it.
\* No statement of ServeHTTP or serveOptions assigns to r.
ServeStep_MoveToFront(res, st) ==
    IF st.pc = "loop" /\ st.i <= st.n /\ res.methods[st.i].method = st.req.Method
    THEN [st  |-> Done(st, << <<"Handler.ServeHTTP", res.methods[st.i].handler, st.w, st.req>> >>),
          res |-> [res EXCEPT !.methods = [res.methods EXCEPT ![1] = res.methods[st.i],
                                                              ![st.i] = res.methods[1]]]]
    ELSE IF st.pc = "line62"
    THEN [st  |-> IF IsEmpty(res) THEN Done(st, HttpError("Not found", StatusNotFound))
                  ELSE IF st.req.Method = "OPTIONS"
                  THEN [st EXCEPT !.pc = "serveOptions", !.trace = Append(st.trace, "serveOptions")]
                  ELSE [st EXCEPT !.pc = "loop", !.i = 1, !.n = Len(res.methods)],
          res |-> res]
    ELSE IF st.pc = "serveOptions"
    THEN [st |-> Done(st, serveOptions(res, st.w, st.req)), res |-> res]
    ELSE IF st.pc = "loop"
    THEN [st  |-> IF st.i > st.n THEN [st EXCEPT !.pc = "line78"]
                  ELSE [st EXCEPT !.i = st.i + 1],
          res |-> res]
    ELSE [st |-> Done(st, NotAllowed(res)), res |-> res]

ServeStep_CallsServeCORS(res, st) ==
    IF st.pc = "line62"
    THEN [st  |-> IF IsEmpty(res) THEN Done(st, HttpError("Not found", StatusNotFound))
                  ELSE IF st.req.Method = "OPTIONS"
                  THEN [st EXCEPT !.pc = "serveOptions",
                                  !.trace = st.trace \o <<"serveCORS", "serveOptions">>]
                  ELSE [st EXCEPT !.pc = "loop", !.i = 1, !.n = Len(res.methods),
                                  !.trace = Append(st.trace, "serveCORS")],
          res |-> res]
    ELSE IF st.pc = "serveOptions"
    THEN [st |-> Done(st, serveOptions(res, st.w, st.req)), res |-> res]
    ELSE IF st.pc = "loop"
    THEN [st  |-> IF st.i > st.n THEN [st EXCEPT !.pc = "line78"]
                  ELSE IF res.methods[st.i].method = st.req.Method
                  THEN Done(st, << <<"Handler.ServeHTTP", res.methods[st.i].handler, st.w, st.req>> >>)
                  ELSE [st EXCEPT !.i = st.i + 1],
          res |-> res]
    ELSE [st |-> Done(st, NotAllowed(res)), res |-> res]

ServeStep(res, st) ==
    IF st.pc = "line62"
    THEN [st  |-> IF IsEmpty(res) THEN Done(st, HttpError("Not found", StatusNotFound))
                  ELSE IF st.req.Method = "OPTIONS"
                  THEN [st EXCEPT !.pc = "serveOptions", !.trace = Append(st.trace, "serveOptions")]
                  ELSE [st EXCEPT !.pc = "loop", !.i = 1, !.n = Len(res.methods)],
          res |-> res]
    ELSE IF st.pc = "serveOptions"
    THEN [st |-> Done(st, serveOptions(res, st.w, st.req)), res |-> res]
    ELSE IF st.pc = "loop"
    THEN [st  |-> IF st.i > st.n THEN [st EXCEPT !.pc = "line78"]
                  ELSE IF res.methods[st.i].method = st.req.Method
                  THEN Done(st, << <<"Handler.ServeHTTP", res.methods[st.i].handler, st.w, st.req>> >>)
                  ELSE [st EXCEPT !.i = st.i + 1],
          res |-> res]
    ELSE [st |-> Done(st, NotAllowed(res)), res |-> res]

\* The Resources a program can have built with at most n Handle calls.
RECURSIVE ResourcesAfter(_)
ResourcesAfter(n) ==
    IF n = 0 THEN {ZeroResource}
    ELSE LET fewer == ResourcesAfter(n - 1)
         IN  fewer \cup {Handle(res, method, handler) :
                            res \in fewer, method \in MethodNames, handler \in Handlers}

----------------------------------------------------------------------------
(* serveCORS, frame by frame *)

\* func (r *Resource) allowOrigin(req) bool
allowOrigin_Refuses(req) ==
    FALSE

allowOrigin(req) ==
    TRUE

\* No serveCORS call has been made.
NoCORS ==
    [status |-> "idle", w |-> "", req |-> [Method |-> "", Origin |-> ""],
     stack |-> <<>>, out |-> <<>>]

\* The frames below the top one.
Below(stack) ==
    SubSeq(stack, 1, Len(stack) - 1)

\* One step of the top frame of serveCORS(w, req).  A frame is at "line94"
\* (the if), at "line96" (after the recursive call returned) or at "line99"
\* (the empty if/else, then return).
serveCORSStep(c) ==
    LET top == c.stack[Len(c.stack)]
    IN  IF top = "line94"
        THEN IF c.req.Origin # "" /\ allowOrigin(c.req)
             THEN IF Len(c.stack) >= MaxStackDepth
                  THEN [c EXCEPT !.status = "stack overflow"]
                  ELSE [c EXCEPT !.stack = Below(c.stack) \o <<"line96", "line94">>]
             ELSE [c EXCEPT !.stack = Append(Below(c.stack), "line99")]
        ELSE IF top = "line96"
        THEN [c EXCEPT !.stack = Append(Below(c.stack), "line99"),
                       !.out = Append(c.out, <<"Header.Set", "Access-Control-Allow-Origin",
                                                c.req.Origin>>)]
        ELSE IF Len(c.stack) = 1
        THEN [c EXCEPT !.stack = <<>>, !.status = "returned"]
        ELSE [c EXCEPT !.stack = Below(c.stack)]

----------------------------------------------------------------------------
(* The state machine *)

NoRequest == [Method |-> "", Origin |-> ""]
NoBody == [data |-> <<>>, readErr |-> FALSE]
NoValue == [kind |-> "nil", text |-> ""]

\* A call record: the operation and its arguments (unused ones at their
\* zero values).
Call(op) ==
    [op |-> op, method |-> "", handler |-> 0, w |-> "", req |-> NoRequest,
     code |-> 0, value |-> NoValue, body |-> NoBody, target |-> ""]

NoHandler == [m \in MethodNames |-> 0]

\* A program starts with a Resource it declared (var r Resource, or
\* &Resource{}) or with a nil *Resource; nothing has been called.
Init ==
    /\ r \in {ZeroResource, NilResource}
    /\ before = r
    /\ seen = <<>>
    /\ latest = NoHandler
    /\ nHandle = 0
    /\ call = Call("none")
    /\ out = <<>>
    /\ ret = "void"
    /\ dest = ""
    /\ panicked = FALSE
    /\ sv = [w \in Writers |-> NotServing(w)]
    /\ cors = NoCORS

\* r.Handle(method, handler).  On a nil *Resource the loop header reads
\* r.methods and the call panics.
HandleCall(method, handler) ==
    /\ ~panicked
    /\ nHandle < MaxHandleCalls
    /\ before' = r
    /\ call' = [Call("Handle") EXCEPT !.method = method, !.handler = handler]
    /\ out' = <<>>
    /\ ret' = "void"
    /\ dest' = ""
    /\ UNCHANGED <<sv, cors>>
    /\ IF r.nil
       THEN /\ panicked' = TRUE
            /\ UNCHANGED <<r, seen, latest, nHandle>>
       ELSE /\ r' = Handle(r, method, handler)
            /\ seen' = IF \E k \in 1..Len(seen) : seen[k] = method
                       THEN seen ELSE Append(seen, method)
            /\ latest' = [latest EXCEPT ![method] = handler]
            /\ nHandle' = nHandle + 1
            /\ UNCHANGED panicked

\* r.ServeHTTP(w, req)
ServeHTTPCall(w, req) ==
    /\ ~panicked
    /\ LET s == ServeHTTP(r, w, req)
       IN  /\ out' = s.out
           /\ panicked' = s.panic
    /\ before' = r
    /\ call' = [Call("ServeHTTP") EXCEPT !.w = w, !.req = req]
    /\ ret' = "void"
    /\ dest' = ""
    /\ UNCHANGED <<r, seen, latest, nHandle, sv, cors>>

\* JSONResponse(w, code, value)
JSONResponseCall(w, code, value) ==
    /\ ~panicked
    /\ LET j == JSONResponse(w, code, value)
       IN  /\ out' = j.out
           /\ ret' = j.err
    /\ before' = r
    /\ call' = [Call("JSONResponse") EXCEPT !.w = w, !.code = code, !.value = value]
    /\ dest' = ""
    /\ UNCHANGED <<r, seen, latest, nHandle, panicked, sv, cors>>

\* JSONRequest(req, v), req.Body being body
JSONRequestCall(body, target) ==
    /\ ~panicked
    /\ LET j == JSONRequest(body, target)
       IN  /\ ret' = j.err
           /\ dest' = j.dest
    /\ before' = r
    /\ call' = [Call("JSONRequest") EXCEPT !.body = body, !.target = target]
    /\ out' = <<>>
    /\ UNCHANGED <<r, seen, latest, nHandle, panicked, sv, cors>>

DoHandle == \E method \in MethodNames, handler \in Handlers : HandleCall(method, handler)
DoServeHTTP == \E w \in Writers, req \in Requests : ServeHTTPCall(w, req)
DoJSONResponse == \E w \in Writers, code \in StatusCodes, value \in Values : JSONResponseCall(w, code, value)
DoJSONRequest == \E body \in Bodies, target \in Targets : JSONRequestCall(body, target)

\* A server that binds and serves a Resource.
Next == DoHandle \/ DoServeHTTP

Spec == Init /\ [][Next]_vars

\* A handler body that uses the JSON shims.
NextCodec == DoJSONResponse \/ DoJSONRequest

SpecCodec == Init /\ [][NextCodec]_vars

\* Serving begins on a Resource that at most MaxBindCalls Handle calls have
\* built, or on a nil *Resource; Handle is not called any more.
InitServe ==
    /\ r \in ResourcesAfter(MaxBindCalls) \cup {NilResource}
    /\ before = r
    /\ seen = <<>>
    /\ latest = NoHandler
    /\ nHandle = 0
    /\ call = Call("none")
    /\ out = <<>>
    /\ ret = "void"
    /\ dest = ""
    /\ panicked = FALSE
    /\ sv = [w \in Writers |-> NotServing(w)]
    /\ cors = NoCORS

\* The server calls r.ServeHTTP(w, req) in a goroutine of its own.
ServeBegin(w, req) ==
    /\ sv[w].pc = "idle"
    /\ sv' = [sv EXCEPT ![w] = [NotServing(w) EXCEPT !.pc = "line62", !.req = req,
                                                    !.trace = <<"ServeHTTP">>,
                                                    !.res0 = r]]
    /\ UNCHANGED <<r, before, seen, latest, nHandle, call, out, ret, dest, panicked, cors>>

\* The call on w takes its next step.
ServeNext(w) ==
    /\ sv[w].pc \notin {"idle", "done"}
    /\ LET s == ServeStep(r, sv[w])
       IN  /\ sv' = [sv EXCEPT ![w] = s.st]
           /\ r' = s.res
    /\ UNCHANGED <<before, seen, latest, nHandle, call, out, ret, dest, panicked, cors>>

DoServeBegin == \E w \in Writers, req \in Requests : ServeBegin(w, req)
DoServeNext == \E w \in Writers : ServeNext(w)

NextServe == DoServeBegin \/ DoServeNext

SpecServe == InitServe /\ [][NextServe]_vars

\* r.serveCORS(w, req), called from inside the package.
serveCORSCall(w, req) ==
    /\ cors.status \in {"idle", "returned"}
    /\ cors' = [status |-> "running", w |-> w, req |-> req, stack |-> <<"line94">>,
                out |-> <<>>]
    /\ UNCHANGED <<r, before, seen, latest, nHandle, call, out, ret, dest, panicked, sv>>

\* The top frame of the serveCORS call takes its next step.
serveCORSNext ==
    /\ cors.status = "running"
    /\ cors' = serveCORSStep(cors)
    /\ UNCHANGED <<r, before, seen, latest, nHandle, call, out, ret, dest, panicked, sv>>

DoServeCORS == \E w \in Writers, req \in Requests : serveCORSCall(w, req)

NextCORS == DoServeCORS \/ serveCORSNext

SpecCORS == Init /\ [][NextCORS]_vars

----------------------------------------------------------------------------
(* Reading a response off the calls made on the ResponseWriter *)

\* The status codes written, in order.
StatusesOf(o) ==
    [k \in 1..Len(SelectSeq(o, LAMBDA e : e[1] = "WriteHeader")) |->
        SelectSeq(o, LAMBDA e : e[1] = "WriteHeader")[k][2]]

\* The body: the bytes written, concatenated.
RECURSIVE BodyOf(_)
BodyOf(o) ==
    IF o = <<>> THEN ""
    ELSE IF Head(o)[1] = "Write" THEN Head(o)[2] \o BodyOf(Tail(o))
    ELSE BodyOf(Tail(o))

\* The values header `key` was set to, in order.
HeaderOf(o, key) ==
    LET sets == SelectSeq(o, LAMBDA e : e[1] = "Header.Set" /\ e[2] = key)
    IN  [k \in 1..Len(sets) |-> sets[k][3]]

\* The handler calls, in order.
InvokedOf(o) ==
    SelectSeq(o, LAMBDA e : e[1] = "Handler.ServeHTTP")

\* strings.Join(elems, ", ")
RECURSIVE Join(_)
Join(elems) ==
    IF elems = <<>> THEN ""
    ELSE IF Len(elems) = 1 THEN elems[1]
    ELSE elems[1] \o ", " \o Join(Tail(elems))

\* The projection of the methods slice onto its method names.
MethodsOf(methods) ==
    [k \in 1..Len(methods) |-> methods[k].method]

\* The last call was ServeHTTP on a Resource that had bindings.
ServedNonEmpty ==
    call.op = "ServeHTTP" /\ ~before.nil /\ Len(before.methods) > 0

----------------------------------------------------------------------------
(* Properties of Resource *)

\* C1: after every Handle call the allow string is the ", "-joined list of
\* the distinct methods in first-seen order, and is the ", "-joined
\* projection of the methods slice onto its method names.
C1_AllowIsJoinOfMethods ==
    ~r.nil => /\ r.allow = Join(seen)
              /\ r.allow = Join(MethodsOf(r.methods))

\* C2: Handle(method, h) on a Resource that already binds method replaces
\* only that binding's handler: the allow string, the number of bindings,
\* the position of every binding and the handlers of the other methods are
\* as they were.
C2_RebindReplacesHandlerOnly ==
    (call.op = "Handle" /\ ~panicked /\ FirstMatch(before.methods, call.method, 1) # 0)
    => /\ r.allow = before.allow
       /\ Len(r.methods) = Len(before.methods)
       /\ \A j \in 1..Len(before.methods) :
            /\ r.methods[j].method = before.methods[j].method
            /\ r.methods[j].handler =
                   IF before.methods[j].method = call.method
                   THEN call.handler
                   ELSE before.methods[j].handler

\* A binding among several was rebound to another handler.
C2_Witness ==
    /\ call.op = "Handle"
    /\ Len(before.methods) >= 2
    /\ FirstMatch(before.methods, call.method, 1) = 1
    /\ before.methods[1].handler # call.handler
    /\ r.methods[1].handler = call.handler

\* C3: ServeHTTP with a request method M that is bound and is not "OPTIONS"
\* calls exactly one handler, once, with the w and req it was given: the
\* handler of the most recent Handle(M, _).  The Resource writes no status
\* code and sets no header.
C3_DispatchesToLatestHandler ==
    (/\ call.op = "ServeHTTP"
     /\ call.req.Method # "OPTIONS"
     /\ call.req.Method \in MethodNames
     /\ latest[call.req.Method] # 0)
    => /\ ~panicked
       /\ out = << <<"Handler.ServeHTTP", latest[call.req.Method], call.w, call.req>> >>

\* Handle("GET", 1), Handle("POST", _), Handle("GET", 2), then a GET.
C3_Witness ==
    /\ call.op = "ServeHTTP"
    /\ call.req.Method = "GET"
    /\ nHandle = 3
    /\ MethodsOf(r.methods) = <<"GET", "POST">>
    /\ latest["GET"] = 2
    /\ Len(out) = 1
    /\ out[1][2] = 2

\* C4: ServeHTTP on a Resource with zero bindings responds 404 with the
\* body "Not found" (as http.Error writes it, ended by a newline) for every
\* request method, "OPTIONS" included; no handler is called and no Allow
\* header is set.
C4_NoBindingsIs404 ==
    (call.op = "ServeHTTP" /\ ~before.nil /\ Len(before.methods) = 0)
    => /\ ~panicked
       /\ StatusesOf(out) = <<StatusNotFound>>
       /\ BodyOf(out) = "Not found\n"
       /\ InvokedOf(out) = <<>>
       /\ HeaderOf(out, "Allow") = <<>>

\* An OPTIONS request was served by a Resource without bindings.
C4_Witness ==
    /\ call.op = "ServeHTTP"
    /\ ~before.nil
    /\ Len(before.methods) = 0
    /\ call.req.Method = "OPTIONS"
    /\ StatusesOf(out) = <<404>>

\* C5: ServeHTTP with method "OPTIONS" on a Resource with at least one
\* binding responds 200 with an empty body and the Allow header set to the
\* allow string, also when "OPTIONS" itself is bound; the bound OPTIONS
\* handler is not called.
C5_OptionsIs200WithAllow ==
    (ServedNonEmpty /\ call.req.Method = "OPTIONS")
    => /\ ~panicked
       /\ StatusesOf(out) = <<StatusOK>>
       /\ BodyOf(out) = ""
       /\ SelectSeq(out, LAMBDA e : e[1] = "Write") = <<>>
       /\ HeaderOf(out, "Allow") = <<r.allow>>
       /\ InvokedOf(out) = <<>>

\* An OPTIONS request was served while "OPTIONS" was bound among others.
C5_Witness ==
    /\ ServedNonEmpty
    /\ call.req.Method = "OPTIONS"
    /\ latest["OPTIONS"] # 0
    /\ r.allow = "GET, OPTIONS"
    /\ HeaderOf(out, "Allow") = <<"GET, OPTIONS">>

\* C6: ServeHTTP on a Resource with bindings, with a method that is not
\* "OPTIONS" and matches no binding, responds 405 with the body
\* "Not allowed" (as http.Error writes it) and the Allow header set to the
\* allow string, and calls no handler.
C6_UnboundMethodIs405WithAllow ==
    (/\ ServedNonEmpty
     /\ call.req.Method # "OPTIONS"
     /\ \A j \in 1..Len(before.methods) : before.methods[j].method # call.req.Method)
    => /\ ~panicked
       /\ StatusesOf(out) = <<StatusMethodNotAllowed>>
       /\ BodyOf(out) = "Not allowed\n"
       /\ HeaderOf(out, "Allow") = <<r.allow>>
       /\ InvokedOf(out) = <<>>

\* A DELETE was refused by a Resource that binds GET and POST.
C6_Witness ==
    /\ ServedNonEmpty
    /\ call.req.Method = "DELETE"
    /\ StatusesOf(out) = <<405>>
    /\ HeaderOf(out, "Allow") = <<"GET, POST">>

\* C9: ServeHTTP on an uninitialized Resource, a nil *Resource or a zero
\* value on which Handle was never called, does not panic and responds as
\* an empty Resource does: 404 for every request method.
C9_UninitializedIs404 ==
    (call.op = "ServeHTTP" /\ (before.nil \/ (before = ZeroResource /\ nHandle = 0)))
    => /\ ~panicked
       /\ out = ServeHTTP(ZeroResource, call.w, call.req).out
       /\ StatusesOf(out) = <<StatusNotFound>>
       /\ BodyOf(out) = "Not found\n"

\* A nil *Resource served a request.
C9_Witness ==
    /\ call.op = "ServeHTTP"
    /\ before.nil
    /\ call.req.Method = "GET"
    /\ StatusesOf(out) = <<404>>

----------------------------------------------------------------------------
(* Properties of the JSON shims *)

\* C7: when JSONResponse(w, code, value) cannot serialize value it returns
\* a non-nil error and makes no call on the writer: no header, no status
\* code, no body.
C7_EncodeFailureWritesNothing ==
    (call.op = "JSONResponse" /\ Marshal(call.value).err # "nil")
    => /\ ret # "nil"
       /\ ret # "void"
       /\ out = <<>>

\* A cyclic value was refused.
C7_Witness ==
    /\ call.op = "JSONResponse"
    /\ call.value.kind = "cycle"
    /\ ret = "json: unsupported value: encountered a cycle"

\* C8: when JSONResponse(w, code, value) can serialize value it makes
\* exactly three calls on the writer, in this order: Content-Type set to
\* "application/json", the status line with the caller's code, the JSON
\* bytes; and it returns nil.
C8_EncodeSuccessWritesInOrder ==
    (call.op = "JSONResponse" /\ Marshal(call.value).err = "nil")
    => /\ out = << <<"Header.Set", "Content-Type", "application/json">>,
                   <<"WriteHeader", call.code>>,
                   <<"Write", Marshal(call.value).v>> >>
       /\ ret = "nil"

\* The string "a" was sent with status 404.
C8_Witness ==
    /\ call.op = "JSONResponse"
    /\ call.value = [kind |-> "string", text |-> "a"]
    /\ call.code = 404
    /\ Len(out) = 3
    /\ out[3] = <<"Write", "\"a\"">>
    /\ ret = "nil"

\* C10: JSONRequest(req, v) returns exactly what decoding the request body
\* into v returns: nil when it succeeds, otherwise the decoder's error as
\* it is, for malformed JSON, a type mismatch and a body read error alike.
C10_DecodeResultUnchanged ==
    call.op = "JSONRequest"
    => /\ ret = Decode(call.body, call.target).err
       /\ dest = Decode(call.body, call.target).dest

\* A number was decoded into a string target.
C10_Witness ==
    /\ call.op = "JSONRequest"
    /\ call.target = "string"
    /\ ret = "json: cannot unmarshal number into Go value of type string"

----------------------------------------------------------------------------
(* Further properties of Resource *)

\* C12: after any sequence of Handle calls the bindings are unique by
\* method, and there are as many of them as distinct method strings were
\* passed to Handle.
C12_BindingsUniqueByMethod ==
    ~r.nil => /\ \A i, j \in 1..Len(r.methods) :
                    r.methods[i].method = r.methods[j].method => i = j
              /\ Len(r.methods) = Cardinality({seen[k] : k \in 1..Len(seen)})

\* Four Handle calls on two methods left two bindings.
C12_Witness ==
    /\ nHandle = 4
    /\ Len(r.methods) = 2
    /\ call.op = "Handle"
    /\ FirstMatch(before.methods, call.method, 1) # 0

\* a is a prefix of b.
IsPrefix(a, b) ==
    Len(a) <= Len(b) /\ SubSeq(b, 1, Len(a)) = a

\* C13: Handle(method, h) with a method that has no binding appends exactly
\* one binding at the end of the scan order and extends the allow string at
\* its end only: the new allow is the old one followed by method, with ", "
\* between them if and only if the old one was not empty.  Every Handle
\* call leaves the allow string it found as a prefix of the one it leaves,
\* so every earlier allow value is a prefix of every later one.
C13_NewMethodAppends ==
    (call.op = "Handle" /\ ~panicked)
    => /\ IsPrefix(before.allow, r.allow)
       /\ FirstMatch(before.methods, call.method, 1) = 0
          => /\ r.methods = Append(before.methods, methodHandler(call.method, call.handler))
             /\ r.allow = before.allow
                            \o (IF before.allow # "" THEN ", " ELSE "")
                            \o call.method

\* POST was bound after GET: "GET" became "GET, POST".
C13_Witness ==
    /\ call.op = "Handle"
    /\ call.method = "POST"
    /\ before.allow = "GET"
    /\ r.allow = "GET, POST"
    /\ Len(r.methods) = Len(before.methods) + 1

\* The four outcomes of ServeHTTP, read off the calls made on w.
Is404(o) == StatusesOf(o) = <<StatusNotFound>> /\ InvokedOf(o) = <<>>
IsOptions200(o) == StatusesOf(o) = <<StatusOK>> /\ InvokedOf(o) = <<>>
IsDelegation(o) == StatusesOf(o) = <<>> /\ Len(InvokedOf(o)) = 1 /\ Len(o) = 1
Is405(o) == StatusesOf(o) = <<StatusMethodNotAllowed>> /\ InvokedOf(o) = <<>>

\* How many of the four outcomes o is.
OutcomesOf(o) ==
    Cardinality({k \in 1..4 : <<Is404(o), IsOptions200(o), IsDelegation(o), Is405(o)>>[k]})

\* C14: every ServeHTTP call takes exactly one of four outcomes (404,
\* OPTIONS 200, delegation to exactly one handler, 405), chosen in that
\* priority order; on the three outcomes that do not delegate the Resource
\* writes the status code exactly once, and nothing is returned to the
\* caller as an error.
C14_OneOutcomeByPriority ==
    call.op = "ServeHTTP"
    => /\ ~panicked
       /\ ret = "void"
       /\ OutcomesOf(out) = 1
       /\ Is404(out) <=> IsEmpty(before)
       /\ IsOptions200(out) <=> (~IsEmpty(before) /\ call.req.Method = "OPTIONS")
       /\ IsDelegation(out) <=> /\ ~IsEmpty(before)
                                /\ call.req.Method # "OPTIONS"
                                /\ \E j \in 1..Len(before.methods) :
                                      before.methods[j].method = call.req.Method
       /\ ~IsDelegation(out) => Len(StatusesOf(out)) = 1

\* A POST was delegated by a Resource that also binds OPTIONS.
C14_Witness ==
    /\ call.op = "ServeHTTP"
    /\ call.req.Method = "POST"
    /\ MethodsOf(before.methods) = <<"OPTIONS", "POST">>
    /\ IsDelegation(out)

\* C15: once a Handle call has returned, the Resource stays non-empty: no
\* later Handle or ServeHTTP call lowers the number of bindings, and no
\* later ServeHTTP call responds 404.
C15_StaysNonEmpty ==
    /\ ~r.nil => Len(r.methods) >= Len(before.methods)
    /\ nHandle > 0
       => /\ Len(r.methods) >= 1
          /\ call.op = "ServeHTTP" => ~Is404(out) /\ StatusNotFound \notin
                                         {StatusesOf(out)[k] : k \in 1..Len(StatusesOf(out))}

\* After a rebinding, a request for an unbound method got 405, not 404.
C15_Witness ==
    /\ nHandle = 2
    /\ Len(r.methods) = 1
    /\ call.op = "ServeHTTP"
    /\ call.req.Method = "DELETE"
    /\ StatusesOf(out) = <<405>>

----------------------------------------------------------------------------
(* Properties of concurrent serving and of the CORS helper *)

\* C11: ServeHTTP never changes the Resource: at every point of every call
\* (404, OPTIONS, handler, 405) the Resource is as it was when the call
\* began, so under any interleaving of concurrent ServeHTTP calls on a
\* Resource that is no longer being bound each call ends with the response
\* it produces when run alone.
C11_ServeHTTPOnlyReads ==
    \A w \in Writers :
        sv[w].pc # "idle"
        => /\ r = sv[w].res0
           /\ sv[w].pc = "done"
              => sv[w].out = ServeHTTP(sv[w].res0, w, sv[w].req).out

\* A POST reached the second binding and was delegated while an OPTIONS
\* call on the other writer was still in progress.
C11_Witness ==
    /\ sv["w1"].pc = "done"
    /\ sv["w1"].req.Method = "POST"
    /\ sv["w1"].i = 2
    /\ IsDelegation(sv["w1"].out)
    /\ sv["w2"].pc = "serveOptions"

\* C16: serveCORS is unreachable from request handling: no ServeHTTP call,
\* on any path and for any request, one with an Origin header included,
\* enters serveCORS or allowOrigin, and the Resource never sets an
\* Access-Control-Allow-Origin header.
C16_ServeCORSUnreachable ==
    /\ cors = NoCORS
    /\ \A w \in Writers :
        /\ \A k \in 1..Len(sv[w].trace) : sv[w].trace[k] \notin {"serveCORS", "allowOrigin"}
        /\ HeaderOf(sv[w].out, "Access-Control-Allow-Origin") = <<>>

\* An OPTIONS request with an Origin header was answered by serveOptions.
C16_Witness ==
    /\ sv["w1"].pc = "done"
    /\ sv["w1"].req = [Method |-> "OPTIONS", Origin |-> "http://a"]
    /\ sv["w1"].trace = <<"ServeHTTP", "serveOptions">>
    /\ IsOptions200(sv["w1"].out)

\* C17 as stated: for every request, a call to serveCORS recurses without
\* ever returning.
C17_NeverReturns ==
    cors.status # "returned"

\* C17 as amended: for every request with a non-empty Origin header, a call
\* to serveCORS recurses without ever returning: every frame but the top
\* one waits at line 95 for its recursive call, the top one is at the if,
\* and line 96 is never reached, so no header is ever set.
C17_NeverReturnsWithOrigin ==
    (cors.status # "idle" /\ cors.req.Origin # "")
    => /\ cors.status \in {"running", "stack overflow"}
       /\ cors.stack # <<>>
       /\ cors.stack[Len(cors.stack)] = "line94"
       /\ \A k \in 1..(Len(cors.stack) - 1) : cors.stack[k] = "line96"
       /\ cors.out = <<>>

\* The recursion is three frames deep.
C17_Witness ==
    /\ cors.status = "running"
    /\ cors.req.Origin = "http://a"
    /\ Len(cors.stack) = 3

====
